---- MODULE Spec2Model ----
(***************************************************************************)
(* A model of keylime-agent/src/crypto.rs: the agent's cryptographic       *)
(* helpers (AEAD envelope codec, HMAC, key files, certificate files, the   *)
(* mTLS acceptor, the certificate template classifier and the comparison   *)
(* of a certificate's key with the key of the TPM).                        *)
(*                                                                         *)
(* The functions of crypto.rs keep no state of their own.  The state of    *)
(* the model is what they act on and what they hand back: the file system, *)
(* the envelope and the MAC in flight between the peers, the acceptor that *)
(* was built, the position of a write_key_pair call, and `last`, the       *)
(* record of the most recent call with its arguments and its result.       *)
(*                                                                         *)
(* The OpenSSL primitives (AES-GCM, HMAC-SHA384, PEM, the X509 store) are  *)
(* not part of the repository.  Each is modelled by a small function with  *)
(* the primitive's contract (a keyed stream cipher that is its own         *)
(* inverse, a keyed tag over the ciphertext, a keyed digest of fixed       *)
(* length, a PEM reader), so that what crypto.rs adds to them (framing,    *)
(* length checks, comparisons, error mapping) is what the checks decide.   *)
(***************************************************************************)
EXTENDS Integers, Sequences, FiniteSets, TLC

VARIABLES
    last,       \* the most recent call: its name, arguments and result
    wire,       \* the AEAD envelope in flight, with what was encrypted
    mac,        \* the MAC in flight, with what was authenticated
    fs,         \* the file system: path -> file (content, mode) or NoFile
    wk,         \* the write_key_pair call in progress, or Idle
    acceptor,   \* the mTLS acceptor most recently built, or NoAcceptor
    seen        \* what a process that does not own the key file read of it

vars == <<last, wire, mac, fs, wk, acceptor, seen>>

-----------------------------------------------------------------------------
(* Bounds of the model *)

\* plaintexts and MAC'd data are the byte strings of length 0..MaxDataLen
MaxDataLen == 1
\* envelopes handed to decrypt_aead have every length 0..MaxEnvelopeLen
MaxEnvelopeLen == 33

(* Program constants.  AES_128_KEY_LEN, AES_256_KEY_LEN and AES_BLOCK_SIZE  *)
(* are imported from the crate root (crypto.rs:30-32); their values are    *)
(* the ones the module's own tests require: a 16-byte iv is accepted and a *)
(* 14-byte one refused (crypto.rs:622, 673), a 16-byte and a 32-byte key   *)
(* select a cipher and a 31-byte key does not (crypto.rs:621, 642, 663).   *)
AES_128_KEY_LEN == 16
AES_256_KEY_LEN == 32
AES_BLOCK_SIZE == 16
\* the length of a SHA-384 digest, the tag of compute_hmac (crypto.rs:401)
SHA384_LEN == 48

-----------------------------------------------------------------------------
(* Bytes and byte strings *)

Byte == 0..255

\* the bytes plaintexts and data are drawn from
DataBytes == {0, 255}

RECURSIVE BitXor(_, _, _)
\* the exclusive or of the low n bits of a and b
BitXor(a, b, n) ==
    IF n = 0 THEN 0
    ELSE (((a % 2) + (b % 2)) % 2) + 2 * BitXor(a \div 2, b \div 2, n - 1)

RECURSIVE Pow2(_)
Pow2(k) == IF k = 0 THEN 1 ELSE 2 * Pow2(k - 1)

\* byte b with bit k (0..7) flipped
FlipBit(b, k) == BitXor(b, Pow2(k), 8)

RECURSIVE DigestUpTo(_, _)
\* a position-sensitive digest of the first i bytes of s
DigestUpTo(s, i) ==
    IF i = 0 THEN 0
    ELSE (i * (s[i] + 1) + 3 * DigestUpTo(s, i - 1)) % 65521

\* a position-sensitive digest of a byte string
WeightedSum(s) == DigestUpTo(s, Len(s))

\* the byte strings over S of length 0..n
SeqsUpTo(S, n) == UNION {[1..k -> S] : k \in 0..n}

\* a byte string of length n, different for different seeds
Pattern(n, seed) == [i \in 1..n |-> (seed + 7 * i) % 256]

\* s with bit k of its i-th byte flipped
FlipBitAt(s, i, k) == [s EXCEPT ![i] = FlipBit(s[i], k)]

-----------------------------------------------------------------------------
(* Results: Rust's Result<T, Error>.  A success carries its value; an     *)
(* error carries the variant of crate::Error and, for Error::Other, its   *)
(* message.  A call that panics has no result at all.                     *)

Ok(v) == [ok |-> TRUE, val |-> v, err |-> "", msg |-> ""]
Err(variant, message) == [ok |-> FALSE, val |-> <<>>, err |-> variant, msg |-> message]
Panic(message) == [ok |-> FALSE, val |-> <<>>, err |-> "panic", msg |-> message]

\* Error::Other(format!("key length {other} does not correspond to valid GCM cipher"))
KeyLengthError(other) ==
    Err("Other", "key length " \o ToString(other) \o " does not correspond to valid GCM cipher")

\* Error::Other(format!("IV length {} does not correspond to valid GCM cipher {}", ..))
IvLengthError(n) ==
    Err("Other", "IV length " \o ToString(n) \o " does not correspond to valid GCM cipher "
                 \o ToString(AES_BLOCK_SIZE))

\* Error::InvalidRequest
InvalidRequest == Err("InvalidRequest", "")

\* Error::Crypto(ErrorStack): a failure reported by OpenSSL
CryptoError == Err("Crypto", "")

\* Error::from(std::io::Error)
IoError == Err("Io", "")

\* Error::Other("hmac check failed")
HmacCheckFailed == Err("Other", "hmac check failed")

-----------------------------------------------------------------------------
(* OpenSSL's AES-GCM, by its contract.  The cipher is chosen by the key   *)
(* length; encryption is a keyed stream (CTR mode), so ciphertext and     *)
(* plaintext have the same length and decryption applies the same stream; *)
(* the tag is a keyed digest of iv and ciphertext, AES_BLOCK_SIZE long.   *)

Cipher(key) ==
    IF Len(key) = AES_128_KEY_LEN THEN "aes_128_gcm"
    ELSE IF Len(key) = AES_256_KEY_LEN THEN "aes_256_gcm"
    ELSE "none"

\* the key stream: its i-th byte depends on the key, the iv and i
GcmCrypt(key, iv, data) ==
    LET k == 31 * WeightedSum(key) + 17 * WeightedSum(iv) + Len(key)
    IN [i \in 1..Len(data) |-> BitXor(data[i], (k + 11 * i) % 256, 8)]

GcmTag(key, iv, aad, ciphertext) ==
    LET d == 13 * WeightedSum(key) + 5 * WeightedSum(iv) + WeightedSum(ciphertext)
                + Len(key) + 3 * WeightedSum(aad) + 29 * Len(aad)
        n == Len(ciphertext) + 1
    IN [j \in 1..AES_BLOCK_SIZE |-> (d + j * n) % 256]

\* openssl::symm::encrypt_aead(cipher, key, Some(iv), aad, data, &mut tag)
SymmEncryptAead(key, iv, aad, data) ==
    LET c == GcmCrypt(key, iv, data)
    IN [ciphertext |-> c, tag |-> GcmTag(key, iv, aad, c)]

\* openssl::symm::decrypt_aead(cipher, key, Some(iv), aad, ciphertext, tag)
SymmDecryptAead(key, iv, aad, ciphertext, tag) ==
    IF tag = GcmTag(key, iv, aad, ciphertext)
    THEN Ok(GcmCrypt(key, iv, ciphertext))
    ELSE CryptoError

-----------------------------------------------------------------------------
(* The AEAD codec *)

\* slice::split_at(mid): the two halves of s
SplitAt(s, mid) == <<SubSeq(s, 1, mid), SubSeq(s, mid + 1, Len(s))>>

\* a variant of SplitEnvelope that reads the layout as iv || tag || ciphertext
SplitEnvelopeTagFirst(data) ==
    LET first == SplitAt(data, AES_BLOCK_SIZE)
        second == SplitAt(first[2], AES_BLOCK_SIZE)
    IN [iv |-> first[1], ciphertext |-> second[2], tag |-> second[1]]

\* how decrypt_aead takes an envelope apart: (iv, ciphertext, tag)
SplitEnvelope(data) ==
    LET first == SplitAt(data, AES_BLOCK_SIZE)
        rest == first[2]
        second == SplitAt(rest, Len(rest) - AES_BLOCK_SIZE)
    IN [iv |-> first[1], ciphertext |-> second[1], tag |-> second[2]]

\* a variant of decrypt_aead that checks the envelope's length before the key's
decrypt_aead_LengthFirst(key, data) ==
    IF Len(data) < AES_BLOCK_SIZE * 2 THEN InvalidRequest
    ELSE IF Cipher(key) = "none" THEN KeyLengthError(Len(key))
    ELSE LET p == SplitEnvelope(data)
         IN SymmDecryptAead(key, p.iv, <<>>, p.ciphertext, p.tag)

\* a variant of decrypt_aead that refuses an envelope of exactly two blocks
decrypt_aead_NoEmptyCiphertext(key, data) ==
    IF Cipher(key) = "none" THEN KeyLengthError(Len(key))
    ELSE IF Len(data) <= AES_BLOCK_SIZE * 2 THEN InvalidRequest
    ELSE LET p == SplitEnvelope(data)
         IN SymmDecryptAead(key, p.iv, <<>>, p.ciphertext, p.tag)

\* crypto::decrypt_aead(key, data)
decrypt_aead(key, data) ==
    IF Cipher(key) = "none" THEN KeyLengthError(Len(key))
    ELSE IF Len(data) < AES_BLOCK_SIZE * 2 THEN InvalidRequest
    ELSE LET p == SplitEnvelope(data)
         IN SymmDecryptAead(key, p.iv, <<>>, p.ciphertext, p.tag)

\* a variant of encrypt_aead that puts the tag before the ciphertext
encrypt_aead_TagFirst(key, iv, data) ==
    IF Cipher(key) = "none" THEN KeyLengthError(Len(key))
    ELSE IF Len(iv) # AES_BLOCK_SIZE THEN IvLengthError(Len(iv))
    ELSE LET c == SymmEncryptAead(key, iv, <<>>, data)
         IN Ok(iv \o c.tag \o c.ciphertext)

\* a variant of encrypt_aead that checks the key's length only
encrypt_aead_AnyIv(key, iv, data) ==
    IF Cipher(key) = "none" THEN KeyLengthError(Len(key))
    ELSE LET c == SymmEncryptAead(key, iv, <<>>, data)
         IN Ok(iv \o c.ciphertext \o c.tag)

\* crypto::testing::encrypt_aead(key, iv, data)
encrypt_aead(key, iv, data) ==
    IF Cipher(key) = "none" THEN KeyLengthError(Len(key))
    ELSE IF Len(iv) # AES_BLOCK_SIZE THEN IvLengthError(Len(iv))
    ELSE LET c == SymmEncryptAead(key, iv, <<>>, data)
         IN Ok(iv \o c.ciphertext \o c.tag)

-----------------------------------------------------------------------------
(* The MAC engine *)

\* OpenSSL's HMAC-SHA384 (PKey::hmac, Signer::new(sha384), update, sign_to_vec),
\* by its contract: a keyed digest of the data, SHA384_LEN bytes long
HmacSha384(key, data) ==
    LET d == 29 * WeightedSum(key) + 7 * WeightedSum(data) + 3 * Len(key) + Len(data)
    IN [j \in 1..SHA384_LEN |-> (d + j * j) % 256]

\* openssl::memcmp::eq(a, b) asserts that a and b have the same length
MemcmpPanics(a, b) == Len(a) # Len(b)

\* a variant of MemcmpEq that leaves the last byte out of the comparison
MemcmpEqButLast(a, b) == \A i \in 1..(Len(a) - 1) : a[i] = b[i]

\* openssl::memcmp::eq(a, b), for a and b of the same length
MemcmpEq(a, b) == \A i \in 1..Len(a) : a[i] = b[i]

\* crypto::compute_hmac(key, data)
compute_hmac(key, data) == Ok(HmacSha384(key, data))

\* crypto::verify_hmac(key, data, hmac)
verify_hmac(key, data, hmac) ==
    LET signed == HmacSha384(key, data)
    IN IF MemcmpPanics(signed, hmac) THEN Panic("assertion failed: a.len() == b.len()")
       ELSE IF ~MemcmpEq(signed, hmac) THEN HmacCheckFailed
       ELSE Ok(<<>>)

-----------------------------------------------------------------------------
(* Keys and certificates *)

\* openssl::pkey::Id: the key types, by OpenSSL's numbers
Id_RSA == 6
Id_DSA == 116
Id_EC == 408
Id_RSA_PSS == 912
Id_ED25519 == 1087

\* a PKey: its type, its size in bits, its curve (EC only; "explicit" for a
\* curve without a name), its key material, and whether it holds the private
\* half
PKey(id, bits, curve, material, priv) ==
    [id |-> id, bits |-> bits, curve |-> curve, material |-> material, priv |-> priv]

\* an X509 certificate: subject, issuer and public key
X509(subject, issuer, key) == [subject |-> subject, issuer |-> issuer, key |-> key]

\* Rsa::from_public_components(n, e), PKey::from_rsa: the public half
PublicHalf(key) == [key EXCEPT !.priv = FALSE]

\* crypto::pkey_pub_from_priv(privkey)
pkey_pub_from_priv(privkey) ==
    IF privkey.id = Id_RSA THEN Ok(PublicHalf(privkey))
    ELSE Err("Other", "pkey_pub_from_priv not yet implemented for key type "
                      \o ToString(privkey.id))

-----------------------------------------------------------------------------
(* Files.  A file has a content and permission bits.  A PEM text is a     *)
(* sequence of lines: a BEGIN line with a label, the encoded object, an   *)
(* END line; a file may hold several texts, or the beginning of one.      *)

NoFile == [exists |-> FALSE]
File(content, mode) == [exists |-> TRUE, content |-> content, mode |-> mode]

\* Permissions::from_mode(0o600)
MODE_0600 == 384
\* the mode File::create asks for (OpenOptions' default, 0o666)
MODE_0666 == 438

RECURSIVE BitAndNot(_, _, _)
\* the low n bits of a, with the bits of b cleared
BitAndNot(a, b, n) ==
    IF n = 0 THEN 0
    ELSE ((a % 2) * (1 - (b % 2))) + 2 * BitAndNot(a \div 2, b \div 2, n - 1)

NoObject == [kind |-> "none"]

PemText(label, object) ==
    << [t |-> "BEGIN", label |-> label, object |-> NoObject],
       [t |-> "BODY", label |-> label, object |-> object],
       [t |-> "END", label |-> label, object |-> NoObject] >>

\* PKey::private_key_to_pem_pkcs8()
private_key_to_pem_pkcs8(key) ==
    PemText("PRIVATE KEY", [kind |-> "pkcs8", key |-> key])

\* PKey::private_key_to_pem_pkcs8_passphrase(Cipher::aes_256_cbc(), passphrase)
private_key_to_pem_pkcs8_passphrase(key, passphrase) ==
    PemText("ENCRYPTED PRIVATE KEY",
            [kind |-> "pkcs8-aes-256-cbc", key |-> key, passphrase |-> passphrase])

\* X509::to_pem()
to_pem(cert) == PemText("CERTIFICATE", [kind |-> "x509", cert |-> cert])

RECURSIVE PemReadFrom(_, _, _)
\* OpenSSL's PEM_bytes_read_bio: the first text from line i on whose label is
\* one of labels (texts with other labels are passed over).  "none": there is
\* no BEGIN line left (PEM_R_NO_START_LINE); "bad": a text is cut short.
PemReadFrom(lines, i, labels) ==
    IF i > Len(lines) THEN [status |-> "none"]
    ELSE IF lines[i].t # "BEGIN" THEN PemReadFrom(lines, i + 1, labels)
    ELSE IF i + 2 > Len(lines) \/ lines[i + 1].t # "BODY" \/ lines[i + 2].t # "END"
              \/ lines[i + 2].label # lines[i].label
         THEN [status |-> "bad"]
    ELSE IF lines[i].label \notin labels THEN PemReadFrom(lines, i + 3, labels)
    ELSE [status |-> "ok", label |-> lines[i].label, object |-> lines[i + 1].object,
          next |-> i + 3]

\* an Option<&str>: None, or Some(text)
None == <<>>
Some(text) == <<text>>

\* PKey::private_key_from_pem(pem): no passphrase is at hand, an encrypted
\* key cannot be read
private_key_from_pem(pem) ==
    LET r == PemReadFrom(pem, 1, {"PRIVATE KEY", "ENCRYPTED PRIVATE KEY"})
    IN IF r.status = "ok" /\ r.object.kind = "pkcs8" THEN Ok(r.object.key)
       ELSE CryptoError

\* PKey::private_key_from_pem_passphrase(pem, passphrase): the passphrase is
\* used if the key is encrypted, and not looked at if it is not
private_key_from_pem_passphrase(pem, passphrase) ==
    LET r == PemReadFrom(pem, 1, {"PRIVATE KEY", "ENCRYPTED PRIVATE KEY"})
    IN IF r.status = "ok" /\ r.object.kind = "pkcs8" THEN Ok(r.object.key)
       ELSE IF r.status = "ok" /\ r.object.kind = "pkcs8-aes-256-cbc"
                /\ r.object.passphrase = passphrase THEN Ok(r.object.key)
       ELSE CryptoError

\* std::fs::read(path), std::fs::read_to_string(path)
ReadFile(files, path) ==
    IF files[path].exists THEN Ok(files[path].content) ELSE IoError

\* crypto::load_key_pair(key_path, key_password)
load_key_pair(files, key_path, key_password) ==
    LET pem == ReadFile(files, key_path)
        private ==
            IF key_password # None /\ key_password[1] # ""
            THEN private_key_from_pem_passphrase(pem.val, key_password[1])
            ELSE private_key_from_pem(pem.val)
    IN IF ~pem.ok THEN pem
       ELSE IF ~private.ok THEN private
       ELSE LET public == pkey_pub_from_priv(private.val)
            IN IF ~public.ok THEN public
               ELSE Ok(<<public.val, private.val>>)

\* what write_key_pair serializes: encrypted under a passphrase that is not
\* empty, in the clear otherwise
KeyPairPem(key, passphrase) ==
    IF passphrase # None /\ passphrase[1] # ""
    THEN private_key_to_pem_pkcs8_passphrase(key, passphrase[1])
    ELSE private_key_to_pem_pkcs8(key)

\* std::fs::File::create(path): the file is truncated if it exists (its mode
\* stays), and created with mode 0o666 less the umask if it does not
FileCreate(file, umask) ==
    IF file.exists THEN File(<<>>, file.mode)
    ELSE File(<<>>, BitAndNot(MODE_0666, umask, 9))

\* one file.write(buf): the n first lines of buf are in the file
FileWrite(file, buf, n) == File(file.content \o SubSeq(buf, 1, n), file.mode)

\* a variant of SetPermissions that adds the bits of mode to those the file has
SetPermissionsAdding(file, mode) ==
    File(file.content, mode + BitAndNot(file.mode, mode, 9))

\* std::fs::set_permissions(path, Permissions::from_mode(mode))
SetPermissions(file, mode) == File(file.content, mode)

-----------------------------------------------------------------------------
(* Certificate files *)

\* crypto::generate_x509(key, uuid): a certificate for the key, signed with it
generate_x509(key, uuid) == X509(uuid, uuid, PublicHalf(key))

RECURSIVE StackFromPem(_, _, _)
\* X509::stack_from_pem(pem): the certificates of the text, in its order.  The
\* loop ends well where no BEGIN line is left, and with an error at a text
\* that is cut short or does not decode.
StackFromPem(lines, i, certs) ==
    LET r == PemReadFrom(lines, i, {"CERTIFICATE"})
    IN IF r.status = "none" THEN Ok(certs)
       ELSE IF r.status = "bad" \/ r.object.kind # "x509" THEN CryptoError
       ELSE StackFromPem(lines, r.next, Append(certs, r.object.cert))

\* crypto::load_x509_cert_chain(input_cert_path)
load_x509_cert_chain(files, input_cert_path) ==
    LET contents == ReadFile(files, input_cert_path)
    IN IF ~contents.ok THEN contents ELSE StackFromPem(contents.val, 1, <<>>)

\* Error::Other("More than one public key provided in revocation cert")
MoreThanOneError == Err("Other", "More than one public key provided in revocation cert")

\* a variant of load_x509 that refuses only a chain of two or more
load_x509_MoreThanOne(files, input_cert_path) ==
    LET cert_chain == load_x509_cert_chain(files, input_cert_path)
    IN IF ~cert_chain.ok THEN cert_chain
       ELSE IF Len(cert_chain.val) > 1 THEN MoreThanOneError
       ELSE IF Len(cert_chain.val) = 0
            THEN Panic("called Option::unwrap() on a None value")
       ELSE Ok(cert_chain.val[Len(cert_chain.val)])

\* crypto::load_x509(input_cert_path)
load_x509(files, input_cert_path) ==
    LET cert_chain == load_x509_cert_chain(files, input_cert_path)
    IN IF ~cert_chain.ok THEN cert_chain
       ELSE IF Len(cert_chain.val) # 1 THEN MoreThanOneError
       ELSE Ok(cert_chain.val[Len(cert_chain.val)])

RECURSIVE CertListLoopStopping(_, _, _, _)
\* a variant of CertListLoop that ends at the first path that fails to load
CertListLoopStopping(files, list, i, acc) ==
    IF i > Len(list) THEN acc
    ELSE LET s == load_x509_cert_chain(files, list[i])
         IN IF s.ok
            THEN CertListLoopStopping(files, list, i + 1,
                                      [acc EXCEPT !.loaded = acc.loaded \o s.val])
            ELSE [acc EXCEPT !.warned = Append(acc.warned, list[i])]

RECURSIVE CertListLoop(_, _, _, _)
\* the loop of load_x509_cert_list from its i-th path on: what is loaded, and
\* the paths warned about
CertListLoop(files, list, i, acc) ==
    IF i > Len(list) THEN acc
    ELSE LET s == load_x509_cert_chain(files, list[i])
         IN CertListLoop(files, list, i + 1,
                IF s.ok THEN [acc EXCEPT !.loaded = acc.loaded \o s.val]
                ELSE [acc EXCEPT !.warned = Append(acc.warned, list[i])])

\* crypto::load_x509_cert_list(input_cert_list)
load_x509_cert_list(files, input_cert_list) ==
    Ok(CertListLoop(files, input_cert_list, 1, [loaded |-> <<>>, warned |-> <<>>]).loaded)

\* the warnings load_x509_cert_list logs: the paths that did not load
cert_list_warnings(files, input_cert_list) ==
    CertListLoop(files, input_cert_list, 1, [loaded |-> <<>>, warned |-> <<>>]).warned

-----------------------------------------------------------------------------
(* The inputs of the AEAD codec *)

\* the key lengths tried: the two valid ones, their neighbours, and others
KeyLens == {0, 15, AES_128_KEY_LEN, 17, 24, 31, AES_256_KEY_LEN, 33}

\* a key of every length of KeyLens, and a second key of 16 bytes
Keys == {Pattern(n, 48) : n \in KeyLens} \cup {Pattern(AES_128_KEY_LEN, 97)}

\* the iv lengths tried: the valid one, GCM's native 12, and a longer one
IvLens == {12, AES_BLOCK_SIZE, 17}

\* an iv of every length of IvLens, and a second iv of 16 bytes
Ivs == {Pattern(n, 65) : n \in IvLens} \cup {Pattern(AES_BLOCK_SIZE, 200)}

Plaintexts == SeqsUpTo(DataBytes, MaxDataLen)

\* byte strings of every length 0..MaxEnvelopeLen, as a peer may send them
Envelopes == {Pattern(n, 3) : n \in 0..MaxEnvelopeLen}

\* what the channel may turn an envelope into: a bit of the iv, of the byte
\* after the iv or of the last byte flipped, the last byte lost, a byte added
Tampered(envelope) ==
    {FlipBitAt(envelope, i, 0) : i \in {1, AES_BLOCK_SIZE + 1, Len(envelope)}}
        \cup {SubSeq(envelope, 1, Len(envelope) - 1), Append(envelope, 0)}

NoCall == [op |-> "none"]
NoWire == [sent |-> FALSE]
NoMac == [sent |-> FALSE]

\* testing::encrypt_aead is called; the envelope it returns goes on the wire
EncryptAead ==
    \E key \in Keys, iv \in Ivs, data \in Plaintexts :
        LET r == encrypt_aead(key, iv, data)
        IN /\ last' = [op |-> "encrypt_aead", key |-> key, iv |-> iv, data |-> data,
                       res |-> r]
           /\ wire' = IF r.ok
                       THEN [sent |-> TRUE, key |-> key, iv |-> iv, plaintext |-> data,
                             envelope |-> r.val]
                       ELSE NoWire
           /\ UNCHANGED <<mac, fs, wk, acceptor, seen>>

\* decrypt_aead is called on the envelope in flight, as sent or tampered with
DecryptAeadFromWire ==
    /\ wire.sent
    /\ \E key \in Keys, data \in {wire.envelope} \cup Tampered(wire.envelope) :
          last' = [op |-> "decrypt_aead", key |-> key, data |-> data, from |-> wire,
                   res |-> decrypt_aead(key, data)]
    /\ wire' = NoWire
    /\ UNCHANGED <<mac, fs, wk, acceptor, seen>>

\* decrypt_aead is called on bytes that no encrypt_aead produced
DecryptAeadBytes ==
    /\ \E key \in Keys, data \in Envelopes :
          last' = [op |-> "decrypt_aead", key |-> key, data |-> data, from |-> NoWire,
                   res |-> decrypt_aead(key, data)]
    /\ wire' = NoWire
    /\ UNCHANGED <<mac, fs, wk, acceptor, seen>>

-----------------------------------------------------------------------------
(* The inputs of the MAC engine *)

\* an empty key, an 8-byte key ("mysecret" has 8) and a 32-byte key
MacKeys == {Pattern(n, 109) : n \in {0, 8, 32}}

Datas == SeqsUpTo(DataBytes, MaxDataLen)

\* every tag that differs from tag in exactly one bit
BitFlips(tag) == {FlipBitAt(tag, i, k) : i \in 1..Len(tag), k \in 0..7}

\* tags of other lengths than the MAC's, and one of its length
OtherTags == {Pattern(n, 9) : n \in {0, SHA384_LEN - 1, SHA384_LEN, SHA384_LEN + 1}}

\* compute_hmac is called; the tag it returns is sent with the data
ComputeHmac ==
    \E key \in MacKeys, data \in Datas :
        LET r == compute_hmac(key, data)
        IN /\ last' = [op |-> "compute_hmac", key |-> key, data |-> data, res |-> r]
           /\ mac' = [sent |-> TRUE, key |-> key, data |-> data, tag |-> r.val]
           /\ UNCHANGED <<wire, fs, wk, acceptor, seen>>

\* verify_hmac is called on the tag in flight: as sent, under any key and data,
\* or with one bit of it flipped, under the key and data it was computed for
VerifyHmacFromWire ==
    /\ mac.sent
    /\ \/ \E key \in MacKeys, data \in Datas :
            last' = [op |-> "verify_hmac", key |-> key, data |-> data, hmac |-> mac.tag,
                     from |-> mac, res |-> verify_hmac(key, data, mac.tag)]
       \/ \E tag \in BitFlips(mac.tag) :
            last' = [op |-> "verify_hmac", key |-> mac.key, data |-> mac.data,
                     hmac |-> tag, from |-> mac,
                     res |-> verify_hmac(mac.key, mac.data, tag)]
    /\ mac' = NoMac
    /\ UNCHANGED <<wire, fs, wk, acceptor, seen>>

\* verify_hmac is called on a tag that no compute_hmac produced
VerifyHmacBytes ==
    /\ \E key \in MacKeys, data \in Datas, tag \in OtherTags :
          last' = [op |-> "verify_hmac", key |-> key, data |-> data, hmac |-> tag,
                   from |-> NoMac, res |-> verify_hmac(key, data, tag)]
    /\ mac' = NoMac
    /\ UNCHANGED <<wire, fs, wk, acceptor, seen>>

NextMac == ComputeHmac \/ VerifyHmacFromWire \/ VerifyHmacBytes

NextAead == EncryptAead \/ DecryptAeadFromWire \/ DecryptAeadBytes

-----------------------------------------------------------------------------
(* Key files *)

\* two RSA keys and an EC key
PrivKeys ==
    { PKey(Id_RSA, 2048, "", "rsa-a", TRUE),
      PKey(Id_RSA, 2048, "", "rsa-b", TRUE),
      PKey(Id_EC, 256, "prime256v1", "ec-a", TRUE) }

KeyPaths == {"agent-key.pem"}
CertPaths == {"a.pem", "b.pem"}
\* a path at which there never is a file
MissingPath == "/non_existing_path/non_existing_cert.pem"
Paths == KeyPaths \cup CertPaths \cup {MissingPath}

\* the passphrases write_key_pair is called with, and load_key_pair
SavePassphrases == {None, Some(""), Some("password")}
LoadPassphrases == SavePassphrases \cup {Some("other")}

\* the process's umask: 0o022 or 0o077
Umasks == {18, 63}
\* the mode an operator may give a key file: 0o664
OperatorModes == {436}

\* a call that has not returned
Running == [ok |-> FALSE, val |-> <<>>, err |-> "running", msg |-> ""]

\* write_key_pair, line 199: File::create(file_path)?
WriteKeyPairCreate ==
    /\ wk = "idle"
    /\ \E key \in PrivKeys, path \in KeyPaths, passphrase \in SavePassphrases,
          umask \in Umasks, created \in BOOLEAN :
          LET call == [op |-> "write_key_pair", key |-> key, path |-> path,
                       passphrase |-> passphrase, before |-> fs[path],
                       res |-> Running]
          IN IF created
             THEN /\ fs' = [fs EXCEPT ![path] = FileCreate(fs[path], umask)]
                  /\ last' = call
                  /\ wk' = "created"
             ELSE /\ last' = [call EXCEPT !.res = IoError]
                  /\ UNCHANGED <<fs, wk>>
    /\ UNCHANGED <<wire, mac, acceptor, seen>>

\* write_key_pair, lines 200-214: the key is serialized and handed to one
\* file.write, whose count of bytes written is not looked at
WriteKeyPairWrite ==
    /\ wk = "created"
    /\ LET pem == KeyPairPem(last.key, last.passphrase)
       IN \/ \E e \in {CryptoError, IoError} :
                /\ last' = [last EXCEPT !.res = e]
                /\ wk' = "idle"
                /\ UNCHANGED fs
          \/ \E n \in 1..Len(pem) :
                /\ fs' = [fs EXCEPT ![last.path] = FileWrite(fs[last.path], pem, n)]
                /\ wk' = "written"
                /\ UNCHANGED last
    /\ UNCHANGED <<wire, mac, acceptor, seen>>

\* write_key_pair, lines 215-216: set_permissions(file_path, 0o600)?; Ok(())
WriteKeyPairChmod ==
    /\ wk = "written"
    /\ \/ /\ fs' = [fs EXCEPT ![last.path] = SetPermissions(fs[last.path], MODE_0600)]
          /\ last' = [last EXCEPT !.res = Ok(<<>>)]
       \/ /\ last' = [last EXCEPT !.res = IoError]
          /\ UNCHANGED fs
    /\ wk' = "idle"
    /\ UNCHANGED <<wire, mac, acceptor, seen>>

\* load_key_pair is called; the record keeps the write_key_pair call it
\* follows, if it follows one
LoadKeyPair ==
    /\ wk = "idle"
    /\ \E path \in KeyPaths, passphrase \in LoadPassphrases :
          last' = [op |-> "load_key_pair", path |-> path, passphrase |-> passphrase,
                   after |-> IF last.op = "write_key_pair" THEN last ELSE NoCall,
                   res |-> load_key_pair(fs, path, passphrase)]
    /\ UNCHANGED <<wire, mac, fs, wk, acceptor, seen>>

\* an operator changes the mode of a key file
OperatorChmod ==
    /\ \E path \in KeyPaths, mode \in OperatorModes :
          /\ fs[path].exists
          /\ fs[path].mode # mode
          /\ fs' = [fs EXCEPT ![path] = SetPermissions(fs[path], mode)]
          /\ last' = IF wk = "idle" THEN [op |-> "chmod", path |-> path, mode |-> mode]
                      ELSE last
    /\ UNCHANGED <<wire, mac, wk, acceptor, seen>>

\* open(2) for reading by a process that does not own the file succeeds
\* where the mode has the read bit of the group (0o040) or of the others
\* (0o004)
NonOwnerCanRead(mode) ==
    \/ (mode \div 32) % 2 = 1
    \/ (mode \div 4) % 2 = 1

\* another process, which does not own the key file, reads it, at any step
\* of write_key_pair or between calls
OtherProcessRead ==
    /\ \E path \in KeyPaths :
          /\ fs[path].exists
          /\ NonOwnerCanRead(fs[path].mode)
          /\ seen # fs[path].content
          /\ seen' = fs[path].content
    /\ UNCHANGED <<last, wire, mac, fs, wk, acceptor>>

\* write_key_pair, step by step, and the other process
NextKeyRace ==
    \/ WriteKeyPairCreate
    \/ WriteKeyPairWrite
    \/ WriteKeyPairChmod
    \/ OtherProcessRead

NextKeyFile ==
    \/ WriteKeyPairCreate
    \/ WriteKeyPairWrite
    \/ WriteKeyPairChmod
    \/ LoadKeyPair
    \/ OperatorChmod

-----------------------------------------------------------------------------
(* Certificate files: the calls *)

\* the paths load_x509_cert_list is called with have up to MaxListLen entries
MaxListLen == 3

\* the certificates of the tests: one key, two names
Certs ==
    { generate_x509(PKey(Id_RSA, 2048, "", "rsa-a", TRUE), "uuidA"),
      generate_x509(PKey(Id_RSA, 2048, "", "rsa-a", TRUE), "uuidB") }

RECURSIVE PemChain(_)
\* the PEM texts of certs, one after the other
PemChain(certs) ==
    IF certs = <<>> THEN <<>> ELSE to_pem(Head(certs)) \o PemChain(Tail(certs))

\* the chains an operator may put into a file: none, one or two certificates
InstalledChains ==
    LET a == generate_x509(PKey(Id_RSA, 2048, "", "rsa-a", TRUE), "uuidA")
        b == generate_x509(PKey(Id_RSA, 2048, "", "rsa-a", TRUE), "uuidB")
    IN {<<>>, <<a>>, <<a, b>>, <<b, a>>}

\* what else an operator may put into a file: a key before a certificate, a
\* second certificate cut short, a certificate that does not decode
OtherContents ==
    { private_key_to_pem_pkcs8(PKey(Id_RSA, 2048, "", "rsa-a", TRUE))
          \o to_pem(generate_x509(PKey(Id_RSA, 2048, "", "rsa-a", TRUE), "uuidB")),
      SubSeq(PemChain(<<generate_x509(PKey(Id_RSA, 2048, "", "rsa-a", TRUE), "uuidA"),
                        generate_x509(PKey(Id_RSA, 2048, "", "rsa-a", TRUE), "uuidB")>>),
             1, 5),
      PemText("CERTIFICATE", [kind |-> "junk"]) }

CertFileContents == {PemChain(certs) : certs \in InstalledChains} \cup OtherContents

\* the lists of paths load_x509_cert_list is called with
PathLists == SeqsUpTo(CertPaths \cup {MissingPath}, MaxListLen)

\* an operator puts a file of certificates at a path (mode 0o644)
InstallCertFile ==
    /\ \E path \in CertPaths, content \in CertFileContents :
          /\ fs' = [fs EXCEPT ![path] = File(content, 420)]
          /\ last' = [op |-> "install", path |-> path]
    /\ UNCHANGED <<wire, mac, wk, acceptor, seen>>

\* crypto::write_x509(cert, file_path): File::create (under umask 0o022), then
\* one file.write of cert.to_pem(), whose count of bytes written is not
\* looked at
WriteX509 ==
    /\ \E cert \in Certs, path \in CertPaths :
          LET call == [op |-> "write_x509", cert |-> cert, path |-> path]
              created == FileCreate(fs[path], 18)
          IN \/ /\ last' = [call EXCEPT !.res = IoError]
                /\ UNCHANGED fs
             \/ \E e \in {CryptoError, IoError} :
                   /\ last' = [call EXCEPT !.res = e]
                   /\ fs' = [fs EXCEPT ![path] = created]
             \/ \E n \in 1..Len(to_pem(cert)) :
                   /\ last' = [call EXCEPT !.res = Ok(<<>>)]
                   /\ fs' = [fs EXCEPT ![path] = FileWrite(created, to_pem(cert), n)]
    /\ UNCHANGED <<wire, mac, wk, acceptor, seen>>

LoadX509 ==
    /\ \E path \in CertPaths \cup {MissingPath} :
          last' = [op |-> "load_x509", path |-> path, res |-> load_x509(fs, path)]
    /\ UNCHANGED <<wire, mac, fs, wk, acceptor, seen>>

LoadX509CertChain ==
    /\ \E path \in CertPaths \cup {MissingPath} :
          last' = [op |-> "load_x509_cert_chain", path |-> path,
                   res |-> load_x509_cert_chain(fs, path)]
    /\ UNCHANGED <<wire, mac, fs, wk, acceptor, seen>>

LoadX509CertList ==
    /\ \E list \in PathLists :
          last' = [op |-> "load_x509_cert_list", list |-> list,
                   res |-> load_x509_cert_list(fs, list),
                   warned |-> cert_list_warnings(fs, list)]
    /\ UNCHANGED <<wire, mac, fs, wk, acceptor, seen>>

NextCertFile ==
    \/ InstallCertFile
    \/ WriteX509
    \/ LoadX509
    \/ LoadX509CertChain
    \/ LoadX509CertList

-----------------------------------------------------------------------------
(* The mTLS acceptor *)

\* the acceptor before generate_mtls_context has returned one
NoAcceptor == [built |-> FALSE]

\* a variant of VerifyModeSet that sets a flag only in an empty mode
VerifyModeSetFirst(mode, flag, value) ==
    IF value /\ mode = {} THEN {flag} ELSE mode

\* SslVerifyMode::set(flag, value), on a mode held as the set of its flags
VerifyModeSet(mode, flag, value) ==
    IF value THEN mode \cup {flag} ELSE mode \ {flag}

\* X509_check_private_key: key is the private key of the certificate
KeyMatches(cert, key) == cert.key = PublicHalf(key)

RECURSIVE StoreAddCerts(_, _, _, _)
\* generate_mtls_context, lines 285-287: the loop of add_cert over
\* keylime_ca_certs from index i on.  The add of index fails_at fails (0: no
\* add fails); a certificate the store holds already is added with no effect.
StoreAddCerts(keylime_ca_certs, i, store, fails_at) ==
    IF i > Len(keylime_ca_certs) THEN Ok(store)
    ELSE IF i = fails_at THEN CryptoError
    ELSE StoreAddCerts(keylime_ca_certs, i + 1, store \cup {keylime_ca_certs[i]}, fails_at)

\* crypto::generate_mtls_context(mtls_cert, key, keylime_ca_certs).  env says
\* which of the calls into OpenSSL fail.  The results of set_certificate and
\* of set_private_key are not looked at (lines 280-281), so a failure of
\* either leaves the context without that part; set_private_key fails for a
\* key that is not the key of the certificate installed.
generate_mtls_context(mtls_cert, key, keylime_ca_certs, env) ==
    IF ~env.mozilla_intermediate THEN CryptoError
    ELSE IF ~env.store_new THEN CryptoError
    ELSE LET certificate == IF env.set_certificate THEN Some(mtls_cert) ELSE None
             private_key ==
                 IF env.set_private_key
                    /\ (certificate # None => KeyMatches(mtls_cert, key))
                 THEN Some(key) ELSE None
             mtls_store == StoreAddCerts(keylime_ca_certs, 1, {}, env.add_cert_fails_at)
             peer == VerifyModeSet({}, "PEER", TRUE)
             verify_mode == VerifyModeSet(peer, "FAIL_IF_NO_PEER_CERT", TRUE)
         IN IF ~mtls_store.ok THEN mtls_store
            ELSE Ok([built |-> TRUE,
                     certificate |-> certificate,
                     private_key |-> private_key,
                     verify_cert_store |-> mtls_store.val,
                     verify_mode |-> verify_mode])

\* the chain of a self-signed peer certificate verifies against the store:
\* the store holds a certificate of the issuer's name whose key made the
\* signature
ChainVerifies(store, cert) ==
    \E ca \in store : ca.subject = cert.issuer /\ ca.key = cert.key

\* what a handshake with the acceptor ends in for a peer that presents a
\* certificate, or none: SSL_VERIFY_PEER asks the client for a certificate
\* and verifies the one presented; SSL_VERIFY_FAIL_IF_NO_PEER_CERT ends the
\* handshake where none is presented.  An acceptor with no certificate or no
\* key of its own completes no handshake.
HandshakeAccepts(ctx, peer) ==
    /\ ctx.certificate # None
    /\ ctx.private_key # None
    /\ "PEER" \in ctx.verify_mode
          => IF peer = None
             THEN "FAIL_IF_NO_PEER_CERT" \notin ctx.verify_mode
             ELSE ChainVerifies(ctx.verify_cert_store, peer[1])

\* keylime_ca_certs has up to MaxCaLen certificates
MaxCaLen == 2

\* the keys and certificates of the agent, the verifier and a stranger
TlsKeys ==
    { PKey(Id_RSA, 2048, "", "rsa-a", TRUE), PKey(Id_RSA, 2048, "", "rsa-b", TRUE) }
TlsCerts ==
    { generate_x509(PKey(Id_RSA, 2048, "", "rsa-a", TRUE), "uuidA"),
      generate_x509(PKey(Id_RSA, 2048, "", "rsa-a", TRUE), "uuidB") }
CaCerts ==
    { generate_x509(PKey(Id_RSA, 2048, "", "rsa-a", TRUE), "uuidA"),
      generate_x509(PKey(Id_RSA, 2048, "", "rsa-a", TRUE), "uuidB"),
      generate_x509(PKey(Id_RSA, 2048, "", "rsa-b", TRUE), "verifier") }
PeerCerts ==
    CaCerts \cup { generate_x509(PKey(Id_RSA, 2048, "", "rsa-c", TRUE), "verifier") }
CaLists == SeqsUpTo(CaCerts, MaxCaLen)

\* the ways the calls into OpenSSL end for a list of n certificates
TlsEnvs(n) ==
    LET env(moz, cert, pkey, new, at) ==
            [mozilla_intermediate |-> moz, set_certificate |-> cert,
             set_private_key |-> pkey, store_new |-> new, add_cert_fails_at |-> at]
    IN {env(TRUE, cert, pkey, TRUE, 0) : cert \in BOOLEAN, pkey \in BOOLEAN}
       \cup {env(FALSE, TRUE, TRUE, TRUE, 0), env(TRUE, TRUE, TRUE, FALSE, 0)}
       \cup {env(TRUE, TRUE, TRUE, TRUE, at) : at \in 1..n}

\* generate_mtls_context is called; what it returns is the acceptor
GenerateMtlsContext ==
    /\ \E mtls_cert \in TlsCerts, key \in TlsKeys, keylime_ca_certs \in CaLists :
          \E env \in TlsEnvs(Len(keylime_ca_certs)) :
             LET res == generate_mtls_context(mtls_cert, key, keylime_ca_certs, env)
             IN /\ last' = [op |-> "generate_mtls_context", mtls_cert |-> mtls_cert,
                            key |-> key, keylime_ca_certs |-> keylime_ca_certs,
                            res |-> res]
                /\ acceptor' = IF res.ok THEN res.val ELSE NoAcceptor
    /\ UNCHANGED <<wire, mac, fs, wk, seen>>

\* a peer connects to the acceptor, with a certificate or with none
Handshake ==
    /\ acceptor.built
    /\ \E peer \in {None} \cup {Some(cert) : cert \in PeerCerts} :
          last' = [op |-> "handshake", peer |-> peer, ctx |-> acceptor,
                   accepted |-> HandshakeAccepts(acceptor, peer)]
    /\ UNCHANGED <<wire, mac, fs, wk, acceptor, seen>>

NextTls == GenerateMtlsContext \/ Handshake

-----------------------------------------------------------------------------
(* Templates *)

\* the subject public key of a certificate whose algorithm OpenSSL has no
\* decoder for
UnknownKey == PKey(0, 0, "", "unknown", FALSE)

\* X509::public_key(): the key of the certificate, or the error of OpenSSL
public_key(cert) ==
    IF cert.key.id = UnknownKey.id THEN CryptoError ELSE Ok(cert.key)

\* a variant of match_cert_to_template with the labels of the 256 bit curves
\* the other way round
match_cert_to_template_Swapped(cert) ==
    IF ~public_key(cert).ok THEN public_key(cert)
    ELSE IF cert.key.id \in {Id_RSA, Id_RSA_PSS}
    THEN (IF cert.key.bits = 2048 THEN Ok("H-1") ELSE Ok(""))
    ELSE IF cert.key.id = Id_EC
    THEN (IF cert.key.bits = 256
          THEN (IF cert.key.curve = "secp256k1" THEN Ok("H-5") ELSE Ok("H-2"))
          ELSE IF cert.key.bits = 384 THEN Ok("H-3")
          ELSE IF cert.key.bits = 521 THEN Ok("H-4")
          ELSE Ok(""))
    ELSE Err("Other", "Certificate does not seem to have an RSA or EC key")

\* crypto::match_cert_to_template(cert).  curve_name() is the name of the
\* curve, "" for a group that has none.
match_cert_to_template(cert) ==
    LET id_rsa_pss == Id_RSA_PSS
    IN IF ~public_key(cert).ok THEN public_key(cert)
       ELSE IF cert.key.id = Id_RSA
       THEN (IF cert.key.bits = 2048 THEN Ok("H-1") ELSE Ok(""))
       ELSE IF cert.key.id = id_rsa_pss
       THEN (IF cert.key.bits = 2048 THEN Ok("H-1") ELSE Ok(""))
       ELSE IF cert.key.id = Id_EC
       THEN (IF cert.key.bits = 256
             THEN (IF cert.key.curve = "secp256k1" THEN Ok("H-2") ELSE Ok("H-5"))
             ELSE IF cert.key.bits = 384 THEN Ok("H-3")
             ELSE IF cert.key.bits = 521 THEN Ok("H-4")
             ELSE Ok(""))
       ELSE Err("Other", "Certificate does not seem to have an RSA or EC key")

\* the RSA and RSA-PSS keys, by size
RsaBits == {1024, 2047, 2048, 2049, 3072, 4096}
\* the curves, by name ("" for a group given by its parameters), and the
\* bits of each
CurveBits ==
    { <<"secp224r1", 224>>, <<"secp256k1", 256>>, <<"prime256v1", 256>>,
      <<"brainpoolP256r1", 256>>, <<"", 256>>, <<"secp384r1", 384>>,
      <<"brainpoolP384r1", 384>>, <<"", 384>>, <<"brainpoolP512r1", 512>>,
      <<"secp521r1", 521>>, <<"", 521>>, <<"sect571r1", 570>> }
\* the keys of the other families: DSA and Ed25519
OtherKeyBits == {<<Id_DSA, 1024>>, <<Id_DSA, 2048>>, <<Id_DSA, 3072>>, <<Id_ED25519, 253>>}

\* the public keys a certificate may hold
TemplateKeys ==
    {PKey(id, bits, "", "n", FALSE) : id \in {Id_RSA, Id_RSA_PSS}, bits \in RsaBits}
    \cup {PKey(Id_EC, c[2], c[1], "q", FALSE) : c \in CurveBits}
    \cup {PKey(k[1], k[2], "", "y", FALSE) : k \in OtherKeyBits}
    \cup {UnknownKey}

\* the certificates match_cert_to_template is called with: signed by their
\* own key, or issued by a manufacturer
TemplateCerts ==
    {X509(subject, issuer, key) :
        subject \in {"uuidA", "uuidB"}, issuer \in {"uuidA", "manufacturer"},
        key \in TemplateKeys}

\* match_cert_to_template is called
MatchCertToTemplate ==
    /\ \E cert \in TemplateCerts :
          last' = [op |-> "match_cert_to_template", cert |-> cert,
                   res |-> match_cert_to_template(cert)]
    /\ UNCHANGED <<wire, mac, fs, wk, acceptor, seen>>

NextTemplate == MatchCertToTemplate

-----------------------------------------------------------------------------
(* The certificate's key and the key of the TPM *)

\* the decimal digits of the byte b, one character each
Digits(b) ==
    IF b < 10 THEN <<ToString(b)>>
    ELSE IF b < 100 THEN <<ToString(b \div 10), ToString(b % 10)>>
    ELSE <<ToString(b \div 100), ToString((b \div 10) % 10), ToString(b % 10)>>

RECURSIVE DebugElements(_, _)
\* the elements of v from the i-th on as {:?} prints them, ", " between them
DebugElements(v, i) ==
    IF i > Len(v) THEN <<>>
    ELSE IF i = Len(v) THEN Digits(v[i])
    ELSE Digits(v[i]) \o <<",", " ">> \o DebugElements(v, i + 1)

\* format!("{:?}", v) for a Vec<u8>: the characters of "[1, 2, 3]"
DebugFormat(v) == <<"[">> \o DebugElements(v, 1) \o <<"]">>

\* String::pop and String::remove(0): s without its last and first character
PopAndRemoveFirst(s) == SubSeq(s, 2, Len(s) - 1)

\* str::contains(&needle): needle is a run of characters of haystack
StrContains(haystack, needle) ==
    \E i \in 0..(Len(haystack) - Len(needle)) :
        SubSeq(haystack, i + 1, i + Len(needle)) = needle

\* DER: tag, length (all lengths here are below 128) and content
Der(tag, content) == <<tag, Len(content)>> \o content

\* DER INTEGER of the big-endian bytes of a positive number: a zero byte goes
\* before a first byte of 128 or more
DerInteger(bytes) ==
    Der(2, IF bytes # <<>> /\ bytes[1] >= 128 THEN <<0>> \o bytes ELSE bytes)

\* AlgorithmIdentifier: rsaEncryption with NULL parameters; id-ecPublicKey
\* with the curve prime256v1
AlgorithmRsa == Der(48, <<6, 9, 42, 134, 72, 134, 247, 13, 1, 1, 1, 5, 0>>)
AlgorithmEc ==
    Der(48, <<6, 7, 42, 134, 72, 206, 61, 2, 1, 6, 8, 42, 134, 72, 206, 61, 3, 1, 7>>)

\* the public exponent 65537
Exponent == <<1, 0, 1>>

\* SubjectPublicKeyInfo of an RSA key of modulus n, in DER
RsaSpkiDer(n) ==
    Der(48, AlgorithmRsa
            \o Der(3, <<0>> \o Der(48, DerInteger(n) \o DerInteger(Exponent))))

\* SubjectPublicKeyInfo of an EC key of the given point, in DER;
\* EcKey::public_key_to_der() of the certificate's key gives the same
EcSpkiDer(point) == Der(48, AlgorithmEc \o Der(3, <<0>> \o point))

\* a tss_esapi::structures::Public: an RSA key (its modulus) or an ECC key
\* (its point)
TpmPublic(type, unique) == [type |-> type, unique |-> unique]

\* picky_asn1_der::to_vec(&SubjectPublicKeyInfo::try_from(tpm_key)?)?
TpmKeyDer(tpm_key) ==
    IF tpm_key.type = "rsa" THEN RsaSpkiDer(tpm_key.unique)
    ELSE EcSpkiDer(tpm_key.unique)

\* the bytes check_x509_key takes from the certificate's key: the modulus n
\* of an RSA key, public_key_to_der() of an EC key
CertKeyBytes(key) ==
    IF key.id = Id_EC THEN EcSpkiDer(key.material) ELSE key.material

\* check_x509_key, lines 102-109, 112-119 and 124-131, which are the same
\* but for cert_n: the Debug text of cert_n without its brackets is looked
\* for in the Debug text of the DER of the TPM's key
DebugTextContained(cert_n, key_der) ==
    LET cert_n_str == PopAndRemoveFirst(DebugFormat(cert_n))
        key_der_str == DebugFormat(key_der)
    IN Ok(StrContains(key_der_str, cert_n_str))

\* crypto::check_x509_key(cert, tpm_key)
check_x509_key(cert, tpm_key) ==
    LET id_rsa_pss == Id_RSA_PSS
    IN IF ~public_key(cert).ok THEN public_key(cert)
       ELSE IF cert.key.id = Id_RSA
       THEN DebugTextContained(CertKeyBytes(cert.key), TpmKeyDer(tpm_key))
       ELSE IF cert.key.id = id_rsa_pss
       THEN DebugTextContained(CertKeyBytes(cert.key), TpmKeyDer(tpm_key))
       ELSE IF cert.key.id = Id_EC
       THEN DebugTextContained(CertKeyBytes(cert.key), TpmKeyDer(tpm_key))
       ELSE Err("Other", "Certificate does not seem to have an RSA or EC key")

\* moduli of two bytes, and points of an x and a y of one byte
Moduli == {<<hi, lo>> : hi \in {129, 200}, lo \in {1, 13, 19, 131}}
Points == {<<4, x, y>> : x \in {7, 77}, y \in {2, 25}}

\* the keys of the certificates and the keys of the TPM
HardwareCertKeys ==
    {PKey(id, 16, "", n, FALSE) : id \in {Id_RSA, Id_RSA_PSS}, n \in Moduli}
    \cup {PKey(Id_EC, 256, "prime256v1", q, FALSE) : q \in Points}
    \cup {PKey(Id_DSA, 2048, "", <<201, 7>>, FALSE),
          PKey(Id_ED25519, 253, "", <<9, 9>>, FALSE),
          [UnknownKey EXCEPT !.material = <<>>]}
TpmKeys ==
    {TpmPublic("rsa", n) : n \in Moduli} \cup {TpmPublic("ecc", q) : q \in Points}

\* check_x509_key is called
CheckX509Key ==
    /\ \E key \in HardwareCertKeys, tpm_key \in TpmKeys :
          LET cert == X509("device", "manufacturer", key)
          IN last' = [op |-> "check_x509_key", cert |-> cert, tpm_key |-> tpm_key,
                      res |-> check_x509_key(cert, tpm_key)]
    /\ UNCHANGED <<wire, mac, fs, wk, acceptor, seen>>

NextHardwareKey == CheckX509Key

-----------------------------------------------------------------------------

Init ==
    /\ last = NoCall
    /\ wire = NoWire
    /\ mac = NoMac
    /\ fs = [path \in Paths |-> NoFile]
    /\ wk = "idle"
    /\ acceptor = NoAcceptor
    /\ seen = <<>>

SpecAead == Init /\ [][NextAead]_vars

SpecMac == Init /\ [][NextMac]_vars

SpecKeyFile == Init /\ [][NextKeyFile]_vars

SpecKeyRace == Init /\ [][NextKeyRace]_vars

SpecCertFile == Init /\ [][NextCertFile]_vars

SpecTls == Init /\ [][NextTls]_vars

SpecTemplate == Init /\ [][NextTemplate]_vars

SpecHardwareKey == Init /\ [][NextHardwareKey]_vars

-----------------------------------------------------------------------------
(* The AEAD codec: what is checked *)

ValidKeyLen(key) == Len(key) \in {16, 32}

\* the last call was decrypt_aead, on the envelope encrypt_aead returned, as
\* it was sent and under the key it was encrypted with
DecryptedWhatWasSent ==
    /\ last.op = "decrypt_aead"
    /\ last.from.sent
    /\ last.key = last.from.key
    /\ last.data = last.from.envelope

\* C1: the AEAD round trip.  For every plaintext (the empty one included),
\* every key of 16 or 32 bytes and every iv of 16 bytes, encrypt_aead
\* succeeds, and decrypt_aead of the envelope it returned, under the same
\* key, succeeds and returns exactly the plaintext.
C1_AeadRoundTrip ==
    /\ (last.op = "encrypt_aead" /\ ValidKeyLen(last.key) /\ Len(last.iv) = 16)
            => (last.res.ok /\ wire.sent /\ wire.envelope = last.res.val)
    /\ DecryptedWhatWasSent
            => (last.res.ok /\ last.res.val = last.from.plaintext)

\* a non-empty plaintext came back from a round trip under a 32-byte key
C1_Witness ==
    /\ DecryptedWhatWasSent
    /\ Len(last.key) = 32
    /\ last.from.plaintext = <<255>>
    /\ last.res.ok

\* C3: decrypt_aead under a key whose length is neither 16 nor 32 fails with
\* the key-length error (Error::Other, "key length n does not correspond to
\* valid GCM cipher") and returns no plaintext, whatever the envelope's
\* length, envelopes shorter than 32 bytes included.
C3_BadKeyLength ==
    (last.op = "decrypt_aead" /\ ~ValidKeyLen(last.key))
        => /\ ~last.res.ok
           /\ last.res.val = <<>>
           /\ last.res.err = "Other"
           /\ last.res = KeyLengthError(Len(last.key))

\* a 31-byte key was refused on an envelope that is also too short
C3_Witness ==
    /\ last.op = "decrypt_aead"
    /\ Len(last.key) = 31
    /\ Len(last.data) = 4
    /\ last.res.err = "Other"

\* C4: under a key of 16 or 32 bytes, decrypt_aead fails with
\* Error::InvalidRequest exactly when the envelope is shorter than 32 bytes.
\* That error is neither the key-length error nor OpenSSL's tag-mismatch
\* error; an envelope of 32 bytes or more is split into a 16-byte iv, a
\* ciphertext that may be empty, and a 16-byte tag, which together are the
\* envelope.
C4_ShortEnvelope ==
    (last.op = "decrypt_aead" /\ ValidKeyLen(last.key))
        => /\ (last.res = InvalidRequest) <=> (Len(last.data) < 32)
           /\ (last.res.err = "InvalidRequest") <=> (Len(last.data) < 32)
           /\ InvalidRequest # KeyLengthError(Len(last.key))
           /\ InvalidRequest # CryptoError
           /\ Len(last.data) >= 32 =>
                 LET p == SplitEnvelope(last.data)
                 IN /\ Len(p.iv) = 16
                    /\ Len(p.tag) = 16
                    /\ Len(p.ciphertext) = Len(last.data) - 32
                    /\ p.iv \o p.ciphertext \o p.tag = last.data
                    /\ last.res \in {CryptoError, Ok(GcmCrypt(last.key, p.iv, p.ciphertext))}

\* an envelope of exactly 32 bytes (an empty ciphertext) was decrypted under
\* a valid key
C4_Witness ==
    /\ last.op = "decrypt_aead"
    /\ ValidKeyLen(last.key)
    /\ Len(last.data) = 32
    /\ last.res.ok
    /\ last.res.val = <<>>

\* the last call was encrypt_aead with a key of 16 or 32 bytes and an iv of
\* 16 bytes
EncryptedWithValidParameters ==
    /\ last.op = "encrypt_aead"
    /\ Len(last.key) \in {16, 32}
    /\ Len(last.iv) = 16

\* C11: the framing of encrypt_aead.  For every key of 16 or 32 bytes, iv of
\* 16 bytes and plaintext, the envelope returned is iv || ciphertext || tag
\* in that order: its first 16 bytes are the iv, its last 16 bytes are the
\* tag of AES-GCM over the ciphertext with empty associated data, what lies
\* between is the ciphertext, which is as long as the plaintext, and the
\* envelope has at least 32 bytes.
C11_EnvelopeFraming ==
    EncryptedWithValidParameters
        => /\ last.res.ok
           /\ LET envelope == last.res.val
                  n == Len(envelope)
                  middle == SubSeq(envelope, 17, n - 16)
              IN /\ n >= 32
                 /\ n = 16 + Len(last.data) + 16
                 /\ SubSeq(envelope, 1, 16) = last.iv
                 /\ middle = GcmCrypt(last.key, last.iv, last.data)
                 /\ SubSeq(envelope, n - 15, n) = GcmTag(last.key, last.iv, <<>>, middle)
                 /\ \A aad \in {<<0>>, <<255>>} :
                       SubSeq(envelope, n - 15, n) # GcmTag(last.key, last.iv, aad, middle)

\* a plaintext of one byte was put into an envelope of 33 bytes under a key
\* of 16 bytes
C11_Witness ==
    /\ EncryptedWithValidParameters
    /\ Len(last.key) = 16
    /\ last.data = <<255>>
    /\ last.res.ok
    /\ Len(last.res.val) = 33

\* C12: encrypt_aead refuses bad parameters.  It fails with Error::Other and
\* returns no envelope whenever the iv has not exactly 16 bytes (the iv-length
\* message, or the key-length message where the key is bad too) and whenever
\* the key has neither 16 nor 32 bytes (the key-length message); for every
\* other key, iv and plaintext it succeeds.
C12_EncryptRejectsBadParameters ==
    last.op = "encrypt_aead"
        => /\ last.res.ok <=> (Len(last.key) \in {16, 32} /\ Len(last.iv) = 16)
           /\ ~last.res.ok
                 => /\ last.res.err = "Other"
                    /\ last.res.val = <<>>
                    /\ wire = NoWire
           /\ Len(last.key) \notin {16, 32}
                 => last.res = KeyLengthError(Len(last.key))
           /\ (Len(last.key) \in {16, 32} /\ Len(last.iv) # 16)
                 => last.res = IvLengthError(Len(last.iv))

\* an iv of 12 bytes was refused under a key of 32 bytes
C12_Witness ==
    /\ last.op = "encrypt_aead"
    /\ Len(last.key) = 32
    /\ Len(last.iv) = 12
    /\ last.res.err = "Other"
    /\ wire = NoWire

-----------------------------------------------------------------------------
(* The MAC engine: what is checked *)

\* the number of bit positions in which the byte strings a and b differ
\* (a and b of the same length)
RECURSIVE BitsOfByte(_, _)
BitsOfByte(b, n) == IF n = 0 THEN 0 ELSE (b % 2) + BitsOfByte(b \div 2, n - 1)

RECURSIVE DistanceUpTo(_, _, _)
DistanceUpTo(a, b, i) ==
    IF i = 0 THEN 0
    ELSE BitsOfByte(BitXor(a[i], b[i], 8), 8) + DistanceUpTo(a, b, i - 1)

\* the last call was verify_hmac under the key and on the data the tag in
\* flight was computed for
VerifiedWhatWasSent ==
    /\ last.op = "verify_hmac"
    /\ last.from.sent
    /\ last.key = last.from.key
    /\ last.data = last.from.data

\* C2: the MAC round trip.  verify_hmac(key, data, compute_hmac(key, data))
\* succeeds for every key and data, and for every tag that differs from
\* compute_hmac(key, data) in exactly one bit verify_hmac(key, data, tag)
\* fails with Error::Other("hmac check failed").
C2_MacRoundTrip ==
    /\ last.op = "compute_hmac" => (last.res.ok /\ Len(last.res.val) = 48)
    /\ (VerifiedWhatWasSent /\ last.hmac = last.from.tag) => last.res = Ok(<<>>)
    /\ (VerifiedWhatWasSent /\ Len(last.hmac) = Len(last.from.tag)
            /\ DistanceUpTo(last.hmac, last.from.tag, Len(last.hmac)) = 1)
            => last.res = HmacCheckFailed

\* a tag whose last byte had its top bit flipped was refused
C2_Witness ==
    /\ VerifiedWhatWasSent
    /\ last.hmac = FlipBitAt(last.from.tag, 48, 7)
    /\ last.res = HmacCheckFailed

-----------------------------------------------------------------------------
(* Key files: what is checked *)

\* C5: whenever write_key_pair returns success, the file at the path has
\* mode 0o600 exactly (384: read and write for the owner, nothing for group
\* and others), for a passphrase that is absent, empty or not empty, and
\* whatever mode the file had when the call began.
C5_KeyFileMode ==
    (last.op = "write_key_pair" /\ last.res.ok)
        => /\ fs[last.path].exists
           /\ fs[last.path].mode = 384
           /\ fs[last.path].mode \div 64 = 6
           /\ fs[last.path].mode % 64 = 0

\* a key was written under a passphrase over a file that had mode 0o664
C5_Witness ==
    /\ last.op = "write_key_pair"
    /\ last.res.ok
    /\ last.passphrase = Some("password")
    /\ last.before.exists
    /\ last.before.mode = 436
    /\ fs[last.path].mode = 384

\* a passphrase that is absent or empty
NoPassphrase(passphrase) == passphrase \in {None, Some("")}

\* the last call was load_key_pair, right after a write_key_pair of an RSA key
\* to the same path that returned success, with the same passphrase or, for a
\* key written in the clear, with any absent or empty one
LoadedWhatWasSaved ==
    /\ last.op = "load_key_pair"
    /\ last.after.op = "write_key_pair"
    /\ last.after.res.ok
    /\ last.after.path = last.path
    /\ last.after.key.id = Id_RSA
    /\ \/ last.passphrase = last.after.passphrase
       \/ NoPassphrase(last.passphrase) /\ NoPassphrase(last.after.passphrase)

\* C10: the key file round trip.  For a passphrase that is absent, empty or
\* not empty, write_key_pair(key, path, p) followed by load_key_pair(path, p)
\* succeeds and returns the private key that was written, with the public
\* key derived from it; a key written with an absent or empty passphrase
\* loads with either.  Stated here for RSA keys, the ones load_key_pair
\* derives a public key for.
C10_KeyFileRoundTrip ==
    LoadedWhatWasSaved
        => last.res = Ok(<<PublicHalf(last.after.key), last.after.key>>)

-----------------------------------------------------------------------------
(* Certificate files: what is checked *)

\* the lines of a file that hold a certificate
CertBodies(content) ==
    {i \in 1..Len(content) : content[i].t = "BODY" /\ content[i].label = "CERTIFICATE"}

RECURSIVE ChainsInOrder(_, _)
\* the chains of the paths of list that load, one after the other
ChainsInOrder(files, list) ==
    IF list = <<>> THEN <<>>
    ELSE LET chain == load_x509_cert_chain(files, Head(list))
         IN (IF chain.ok THEN chain.val ELSE <<>>) \o ChainsInOrder(files, Tail(list))

\* path does not load as a chain
FailsToLoad(path) == ~load_x509_cert_chain(fs, path).ok

\* C8: load_x509_cert_list never fails.  For every list of paths, whichever
\* of them are missing or do not parse (all of them, too), it returns success
\* with the chains of the paths that loaded, one after the other in the order
\* of the list; a path that fails is warned about once, contributes nothing,
\* and does not keep the paths after it from being loaded.
C8_CertListNeverFails ==
    last.op = "load_x509_cert_list"
        => /\ last.res.ok
           /\ last.res.val = ChainsInOrder(fs, last.list)
           /\ last.warned = SelectSeq(last.list, FailsToLoad)

\* of three paths the second was missing, and the certificates of the first
\* and the third were returned
C8_Witness ==
    /\ last.op = "load_x509_cert_list"
    /\ last.list = <<"a.pem", MissingPath, "b.pem">>
    /\ last.warned = <<MissingPath>>
    /\ Len(last.res.val) = 2
    /\ last.res.val[1].subject = "uuidA"
    /\ last.res.val[2].subject = "uuidB"

-----------------------------------------------------------------------------
(* The mTLS acceptor: what is checked *)

\* the certificates of a list
CertsOf(list) == {list[i] : i \in 1..Len(list)}

-----------------------------------------------------------------------------
(* Templates: what is checked *)

\* the template table: the label for a key type, a key size and a curve, and
\* "UnsupportedKeyType" where the table has the error
TemplateTable(type, bits, curve) ==
    CASE type \in {"RSA", "RSA-PSS"} -> (IF bits = 2048 THEN "H-1" ELSE "")
      [] type = "EC" /\ bits = 256 /\ curve = "secp256k1" -> "H-2"
      [] type = "EC" /\ bits = 256 /\ curve # "secp256k1" -> "H-5"
      [] type = "EC" /\ bits = 384 -> "H-3"
      [] type = "EC" /\ bits = 521 -> "H-4"
      [] type = "EC" /\ bits \notin {256, 384, 521} -> ""
      [] OTHER -> "UnsupportedKeyType"

\* the key type of the table for an id of OpenSSL
KeyType(id) ==
    CASE id = 6 -> "RSA" [] id = 912 -> "RSA-PSS" [] id = 408 -> "EC" [] OTHER -> "other"

\* the last call was match_cert_to_template and returned what the table has
\* for the key of its certificate
AgreesWithTable ==
    LET key == last.cert.key
        label == TemplateTable(KeyType(key.id), key.bits, key.curve)
    IN IF label = "UnsupportedKeyType"
       THEN /\ ~last.res.ok
            /\ last.res.err = "Other"
            /\ last.res.msg = "Certificate does not seem to have an RSA or EC key"
            /\ last.res.val = <<>>
       ELSE last.res = Ok(label)

\* C9, as the specification has it: match_cert_to_template agrees with the
\* template table on every certificate; a certificate whose key is neither
\* RSA, RSA-PSS nor EC gets the error of an unsupported key type.
C9_TemplateTableEveryInput ==
    last.op = "match_cert_to_template" => AgreesWithTable

\* C9: on every certificate whose public key OpenSSL decodes,
\* match_cert_to_template is a function of key type, key size and curve that
\* agrees with the template table: RSA and RSA-PSS of 2048 bits give H-1 and
\* of any other size the empty label; EC of 256 bits gives H-2 on secp256k1
\* and H-5 on any other curve, of 384 bits H-3, of 521 bits H-4 and of any
\* other size the empty label; any other key type gives Error::Other and no
\* label.  A certificate whose public key does not decode gives Error::Crypto.
C9_TemplateTable ==
    last.op = "match_cert_to_template"
        => IF public_key(last.cert).ok
           THEN AgreesWithTable
           ELSE last.res = CryptoError

\* a certificate with an EC key of 256 bits on a curve other than secp256k1
\* was given H-5
C9_Witness ==
    /\ last.op = "match_cert_to_template"
    /\ last.cert.key.id = 408
    /\ last.cert.key.bits = 256
    /\ last.cert.key.curve = "prime256v1"
    /\ last.res = Ok("H-5")

-----------------------------------------------------------------------------
(* Key files and other processes: what is checked *)

\* the lines hold a private key, in the clear or encrypted
HasKeyMaterial(lines) ==
    \E i \in 1..Len(lines) :
        /\ lines[i].t = "BODY"
        /\ lines[i].label \in {"PRIVATE KEY", "ENCRYPTED PRIVATE KEY"}

\* C13: at no step of write_key_pair, and neither after it failed at the
\* write or at set_permissions, does the file hold a private key while its
\* mode lets a process other than the owner read it, and no such process
\* ever reads a private key from it.
C13_NoReadableKeyMaterial ==
    /\ \A path \in KeyPaths :
          (fs[path].exists /\ HasKeyMaterial(fs[path].content))
              => ~NonOwnerCanRead(fs[path].mode)
    /\ ~HasKeyMaterial(seen)

-----------------------------------------------------------------------------
(* The certificate's key and the key of the TPM: what is checked *)

\* the bytes of needle are a run of whole bytes of haystack
OccursIn(haystack, needle) ==
    \E i \in 0..(Len(haystack) - Len(needle)) :
        \A j \in 1..Len(needle) : haystack[i + j] = needle[j]

\* C14: for a certificate with an RSA, RSA-PSS or EC key check_x509_key
\* returns true exactly when the bytes of the certificate's key (the modulus
\* of an RSA key, the encoding of an EC key) are a run of whole bytes of the
\* SubjectPublicKeyInfo of the TPM's key in DER, and never for a key whose
\* bytes do not occur there byte for byte; for a key of any other type it
\* fails with Error::Other.  (A certificate whose key does not decode is
\* left aside.)
C14_WholeByteContainment ==
    (last.op = "check_x509_key" /\ public_key(last.cert).ok)
        => IF last.cert.key.id \in {6, 912, 408}
           THEN /\ last.res.ok
                /\ last.res.val
                     <=> OccursIn(TpmKeyDer(last.tpm_key), CertKeyBytes(last.cert.key))
           ELSE /\ ~last.res.ok
                /\ last.res.err = "Other"

-----------------------------------------------------------------------------
(* The mTLS acceptor and its certificate and key: what is checked *)

\* C15: generate_mtls_context fails with Error::Crypto and returns no
\* acceptor whenever the certificate or the private key cannot be installed
\* (a key that is not the key of the certificate, for one) or the store
\* cannot be built; an acceptor it returns has the certificate and the key
\* it was called with installed.
C15_NoContextWithoutCertificateAndKey ==
    last.op = "generate_mtls_context"
        => /\ last.res.ok
                => /\ last.res.val.certificate = Some(last.mtls_cert)
                   /\ last.res.val.private_key = Some(last.key)
           /\ ~KeyMatches(last.mtls_cert, last.key)
                => (last.res = CryptoError /\ acceptor = NoAcceptor)
           /\ ~last.res.ok => (last.res = CryptoError /\ acceptor = NoAcceptor)

-----------------------------------------------------------------------------
(* The MAC engine and tags of any length: what is checked *)

\* C16: verify_hmac has two outcomes only.  For every key, data and tag of
\* any length (empty, shorter or longer than 48 bytes, or of 48 bytes) it
\* returns Ok(()) if the tag is compute_hmac(key, data) and
\* Error::Other("hmac check failed") if it is not; it never panics and
\* returns nothing else.
C16_VerifyTwoOutcomes ==
    last.op = "verify_hmac"
        => /\ last.res \in {Ok(<<>>), HmacCheckFailed}
           /\ last.res.err # "panic"
           /\ last.res = Ok(<<>>) <=> last.hmac = compute_hmac(last.key, last.data).val

====
